---- MODULE Spec2Model ----
(***************************************************************************)
(* Selection and variation operators of the tree-based GP engine           *)
(* (Python_StdGP/stdgp/GeneticOperators.py).                               *)
(*                                                                         *)
(* Every operator is a function of (rng, population, parameters).  The     *)
(* values the random source hands out are the nondeterministic inputs of   *)
(* each action; the operators below are deterministic in those values and  *)
(* follow the Python statements one by one.  Python indices are 0-based,   *)
(* TLA+ sequences 1-based: a drawn index i addresses population[i + 1].    *)
(*                                                                         *)
(* The operators keep nothing between calls and never write to the         *)
(* population, so a behaviour is one call on one population: Init picks    *)
(* the population, one action makes the call and records how it ended.     *)
(* Node and Individual are used through getHead, getRandomNode, swap,      *)
(* create, copy, getDepth and the attributes size and fitness; a tree is   *)
(* kept by its shape, which is all that depth and size depend on.          *)
(***************************************************************************)
EXTENDS Integers, Sequences, FiniteSets, TLC

VARIABLES
  population,  \* the population argument, a sequence of Individuals
  op,          \* the operator called last ("none" before the first call)
  args,        \* its parameters
  outcome,     \* [exc, at]: the exception it raised ("none" when it returned)
  result,      \* what it returned, as a sequence of Individuals
  rngCalls,    \* calls made on the random source during the call
  nodeOps,     \* tree operations (getHead, getRandomNode, create, swap) made
  drawn,       \* the set of indices the deciding tournament drew
  qualifiers,  \* the shortlist the first stage of a double tournament built
  stages,      \* stages of the double tournament completed
  parents      \* the parents a variation operator selected

vars ==
  <<population, op, args, outcome, result, rngCalls, nodeOps, drawn, qualifiers,
    stages, parents>>

\* ---------------------------------------------------------------- bounds
\* largest population
MaxPop == 2
\* largest Sf / Sp
MaxTour == 2
\* largest n_comp / tournament_size of the double tournament and of the
\* variation operators
MaxComp == 2

\* the max_depth an Individual can be configured with
DepthLimits == 1..2
FitnessTypes == {"lower_is_better", "higher_is_better"}
None == "None"

\* ---------------------------------------------------------------- helpers
Min(S) == CHOOSE x \in S : \A y \in S : x <= y

Max2(a, b) == IF a >= b THEN a ELSE b

Range(s) == {s[i] : i \in DOMAIN s}

\* ------------------------------------------------- Program Tree (Node)
\* A terminal is <<>>, an operator node is <<left, right>>; a node of a tree
\* is addressed by its path from the root.
Leaf == <<>>

RECURSIVE Depth(_)
Depth(t) == IF Len(t) = 0 THEN 1 ELSE 1 + Max2(Depth(t[1]), Depth(t[2]))

RECURSIVE Size(_)
Size(t) == IF Len(t) = 0 THEN 1 ELSE 1 + Size(t[1]) + Size(t[2])

RECURSIVE Nodes(_)
Nodes(t) ==
  IF Len(t) = 0 THEN {<<>>}
  ELSE {<<>>} \cup {<<1>> \o p : p \in Nodes(t[1])} \cup {<<2>> \o p : p \in Nodes(t[2])}

RECURSIVE Subtree(_, _)
Subtree(t, p) == IF Len(p) = 0 THEN t ELSE Subtree(t[Head(p)], Tail(p))

RECURSIVE Replace(_, _, _)
Replace(t, p, s) ==
  IF Len(p) = 0 THEN s
  ELSE [t EXCEPT ![Head(p)] = Replace(t[Head(p)], Tail(p), s)]

\* n1.swap(n2): the two nodes exchange their subtrees, each inside its own tree
swap(h1, p1, h2, p2) ==
  <<Replace(h1, p1, Subtree(h2, p2)), Replace(h2, p2, Subtree(h1, p1))>>

\* the trees Node.create can grow under a depth bound
RECURSIVE TreesUpTo(_)
TreesUpTo(d) ==
  IF d <= 1 THEN {Leaf}
  ELSE {Leaf} \cup {<<l, r>> : l \in TreesUpTo(d - 1), r \in TreesUpTo(d - 1)}

\* ---------------------------------------------------------- Individual
Config(md, ft) ==
  [operators |-> "operators", terminals |-> "terminals", max_depth |-> md,
   model_name |-> "model", fitnessType |-> ft]

MkIndividual(id, cfg, head, fitness) ==
  [id |-> id, cfg |-> cfg, head |-> head, size |-> Size(head), fitness |-> fitness]

getDepth(ind) == Depth(ind.head)

\* ------------------------------------------------------ call results
\* What a call leaves behind: the exception (exc, raised by the statement
\* at), the returned Individuals (val), the number of rng calls made, and what
\* the call computed on the way.
Returned(v, calls) ==
  [exc |-> "none", at |-> "", val |-> v, calls |-> calls, drawn |-> {},
   qualifiers |-> <<>>, stages |-> 0, parents |-> <<>>, nodeOps |-> 0]

Raised(e, where, calls) ==
  [exc |-> e, at |-> where, val |-> <<>>, calls |-> calls, drawn |-> {},
   qualifiers |-> <<>>, stages |-> 0, parents |-> <<>>, nodeOps |-> 0]

\* ------------------------------------------------------ random source
\* rng.randint(0, N - 1), n times, as a sequence of n indices; with N = 0 or
\* n = 0 no value is ever handed out.
RandintSeqs(n, N) == IF n <= 0 \/ N <= 0 THEN {<<>>} ELSE [1..n -> 0..(N - 1)]

\* rng.sample(range(N), k): k distinct indices.  The callers read the list
\* only through min(), so a sample is kept as the set of its indices.  No
\* value is handed out when k > N (the call raises).
Samples(N, k) ==
  IF k > N \/ k <= 0 THEN {{}}
  ELSE {S \in SUBSET (0..(N - 1)) : Cardinality(S) = k}

\* min([rng.randint(0, N - 1) for _ in range(n_comp)]): the values one inner
\* comprehension of a first-stage pass can take.
InnerMins(n_comp, N) == {Min(Range(d)) : d \in RandintSeqs(n_comp, N) \ {<<>>}}

\* the Sx inner minima of a first-stage pass, one per tournament (the Sx
\* tournaments draw independently)
FirstStageMins(Sx, n_comp, N) ==
  IF Sx <= 0 \/ n_comp <= 0 \/ N <= 0 THEN {<<>>}
  ELSE [1..Sx -> InnerMins(n_comp, N)]

\* ------------------------------------------------------------ sorting
\* sorted(seq, key=...): stable, ascending; insertion from the left keeps
\* equal keys in their input order.
RECURSIVE InsertByKey(_, _, _)
InsertByKey(s, x, key) ==
  IF Len(s) = 0 THEN <<x>>
  ELSE IF s[Len(s)][key] <= x[key] THEN Append(s, x)
  ELSE Append(InsertByKey(SubSeq(s, 1, Len(s) - 1), x, key), s[Len(s)])

RECURSIVE sorted(_, _)
sorted(s, key) ==
  IF Len(s) = 0 THEN <<>>
  ELSE InsertByKey(sorted(SubSeq(s, 1, Len(s) - 1), key), s[Len(s)], key)

\* ---------------------------------------------------------- tournament
\* tournament returning the worst drawn index instead of the best
tournament_max(pop, n, draws) ==
  IF n > 0 /\ Len(pop) = 0 THEN Raised("ValueError", "randint", 1)
  ELSE IF n <= 0 THEN Raised("ValueError", "min", 0)
  ELSE [Returned(<<pop[(0 - Min({0 - d : d \in Range(draws)})) + 1]>>, n)
          EXCEPT !.drawn = Range(draws)]

\* tournament returning the first drawn index
tournament_first(pop, n, draws) ==
  IF n > 0 /\ Len(pop) = 0 THEN Raised("ValueError", "randint", 1)
  ELSE IF n <= 0 THEN Raised("ValueError", "min", 0)
  ELSE [Returned(<<pop[draws[1] + 1]>>, n) EXCEPT !.drawn = Range(draws)]

\* candidates = [rng.randint(0, len(population)-1) for i in range(n)]
\* return population[min(candidates)]
tournament(pop, n, draws) ==
  IF n > 0 /\ Len(pop) = 0 THEN Raised("ValueError", "randint", 1)
  ELSE IF n <= 0 THEN Raised("ValueError", "min", 0)
  ELSE [Returned(<<pop[Min(Range(draws)) + 1]>>, n) EXCEPT !.drawn = Range(draws)]

\* first_tournament: candidates = [population[min(n_comp draws)] for _ in
\* range(Sf)], returned sorted by fitness (rnd[i] is the i-th inner minimum);
\* otherwise candidates = rng.sample(range(len(population)), Sf) and the entry
\* at min(candidates) is returned (rnd is the list rng.sample handed out).
fit_tournament(pop, Sf, n_comp, first_tournament, rnd) ==
  IF first_tournament
  THEN IF Sf <= 0 THEN Returned(<<>>, 0)
       ELSE IF n_comp <= 0 THEN Raised("ValueError", "min", 0)
       ELSE IF Len(pop) = 0 THEN Raised("ValueError", "randint", 1)
       ELSE Returned(sorted([i \in 1..Sf |-> pop[rnd[i] + 1]], "fitness"), Sf * n_comp)
  ELSE IF Sf > Len(pop) \/ Sf < 0 THEN Raised("ValueError", "sample", 1)
       ELSE IF Sf = 0 THEN Raised("ValueError", "min", 1)
       ELSE [Returned(<<pop[Min(rnd) + 1]>>, 1) EXCEPT !.drawn = rnd]

\* as fit_tournament, over sorted_population = sorted(population, key=size)
size_tournament(pop, Sp, n_comp, first_tournament, rnd) ==
  LET sorted_population == sorted(pop, "size")
  IN  IF first_tournament
      THEN IF Sp <= 0 THEN Returned(<<>>, 0)
           ELSE IF n_comp <= 0 THEN Raised("ValueError", "min", 0)
           ELSE IF Len(pop) = 0 THEN Raised("ValueError", "randint", 1)
           ELSE Returned(sorted([i \in 1..Sp |-> sorted_population[rnd[i] + 1]], "fitness"),
                         Sp * n_comp)
      ELSE IF Sp > Len(pop) \/ Sp < 0 THEN Raised("ValueError", "sample", 1)
           ELSE IF Sp = 0 THEN Raised("ValueError", "min", 1)
           ELSE [Returned(<<sorted_population[Min(rnd) + 1]>>, 1) EXCEPT !.drawn = rnd]

\* the two passes of double_tournament, after its assertion
TwoStages(first, second) ==
  IF first.exc # "none" THEN first
  ELSE [second EXCEPT !.calls = first.calls + second.calls,
                      !.qualifiers = first.val,
                      !.stages = IF second.exc = "none" THEN 2 ELSE 1]

\* double_tournament with the strict comparisons its assertion messages name
double_tournament_strict(pop, Sf, Sp, n_comp, switch, rnd1, rnd2) ==
  IF switch
  THEN IF ~(Sp > Sf) THEN Raised("AssertionError", "assert", 0)
       ELSE LET qual == size_tournament(pop, Sp, n_comp, TRUE, rnd1)
            IN  TwoStages(qual, fit_tournament(qual.val, Sf, n_comp, FALSE, rnd2))
  ELSE IF ~(Sf > Sp) THEN Raised("AssertionError", "assert", 0)
       ELSE LET qual == fit_tournament(pop, Sf, n_comp, TRUE, rnd1)
            IN  TwoStages(qual, size_tournament(qual.val, Sp, n_comp, FALSE, rnd2))

\* double_tournament asserting after its first stage
double_tournament_late(pop, Sf, Sp, n_comp, switch, rnd1, rnd2) ==
  IF switch
  THEN LET qual == size_tournament(pop, Sp, n_comp, TRUE, rnd1)
       IN  IF qual.exc # "none" THEN qual
           ELSE IF ~(Sp >= Sf) THEN Raised("AssertionError", "assert", qual.calls)
           ELSE TwoStages(qual, fit_tournament(qual.val, Sf, n_comp, FALSE, rnd2))
  ELSE LET qual == fit_tournament(pop, Sf, n_comp, TRUE, rnd1)
       IN  IF qual.exc # "none" THEN qual
           ELSE IF ~(Sf >= Sp) THEN Raised("AssertionError", "assert", qual.calls)
           ELSE TwoStages(qual, size_tournament(qual.val, Sp, n_comp, FALSE, rnd2))

\* double_tournament with its assertions stripped
double_tournament_unchecked(pop, Sf, Sp, n_comp, switch, rnd1, rnd2) ==
  IF switch
  THEN LET qual == size_tournament(pop, Sp, n_comp, TRUE, rnd1)
       IN  TwoStages(qual, fit_tournament(qual.val, Sf, n_comp, FALSE, rnd2))
  ELSE LET qual == fit_tournament(pop, Sf, n_comp, TRUE, rnd1)
       IN  TwoStages(qual, size_tournament(qual.val, Sp, n_comp, FALSE, rnd2))

double_tournament(pop, Sf, Sp, n_comp, switch, rnd1, rnd2) ==
  IF switch
  THEN IF ~(Sp >= Sf) THEN Raised("AssertionError", "assert", 0)
       ELSE LET qual == size_tournament(pop, Sp, n_comp, TRUE, rnd1)
            IN  TwoStages(qual, fit_tournament(qual.val, Sf, n_comp, FALSE, rnd2))
  ELSE IF ~(Sf >= Sp) THEN Raised("AssertionError", "assert", 0)
       ELSE LET qual == fit_tournament(pop, Sf, n_comp, TRUE, rnd1)
            IN  TwoStages(qual, size_tournament(qual.val, Sp, n_comp, FALSE, rnd2))

\* the values the random source can hand to the second stage, given what the
\* first stage drew
SecondStageSamples(pop, Sf, Sp, n_comp, switch, rnd1) ==
  LET qual == IF switch THEN size_tournament(pop, Sp, n_comp, TRUE, rnd1)
              ELSE fit_tournament(pop, Sf, n_comp, TRUE, rnd1)
  IN  IF qual.exc # "none" THEN {{}}
      ELSE Samples(Len(qual.val), IF switch THEN Sf ELSE Sp)

\* ------------------------------------------------------------- elitism
\* population[:n], a Python slice: a negative stop counts from the end and
\* every stop is clamped to the list.
\* getElite stopping one element early
getElite_short(pop, n) ==
  LET stop == IF n < 0 THEN Max2(Len(pop) + n, 0) ELSE IF n > Len(pop) THEN Len(pop) ELSE n
  IN  SubSeq(pop, 1, stop - 1)

getElite(pop, n) ==
  LET stop == IF n < 0 THEN Max2(Len(pop) + n, 0) ELSE IF n > Len(pop) THEN Len(pop) ELSE n
  IN  SubSeq(pop, 1, stop)

\* --------------------------------------------------------- discardDeep
\* discardDeep dropping the Individuals exactly at the limit too
RECURSIVE discardDeepFrom_strict(_, _, _, _)
discardDeepFrom_strict(pop, limit, i, ret) ==
  IF i > Len(pop) THEN ret
  ELSE discardDeepFrom_strict(pop, limit, i + 1,
                              IF getDepth(pop[i]) < limit THEN Append(ret, pop[i]) ELSE ret)

RECURSIVE discardDeepFrom(_, _, _, _)
discardDeepFrom(pop, limit, i, ret) ==
  IF i > Len(pop) THEN ret
  ELSE discardDeepFrom(pop, limit, i + 1,
                       IF getDepth(pop[i]) <= limit THEN Append(ret, pop[i]) ELSE ret)

discardDeep(pop, limit) == discardDeepFrom(pop, limit, 1, <<>>)

\* ------------------------------------------------------------ variation
\* Individual(operators, terminals, max_depth, model_name, fitnessType)
\* followed by i.copy(h): a new object carrying tree h, fitness unset
Offspring(id, cfg, h) == MkIndividual(id, cfg, h, None)

\* What the parent selection of a variation operator left behind, without
\* the indices it drew.
Selection(r) == [exc |-> r.exc, at |-> r.at, val |-> r.val, calls |-> r.calls]

\* every way the parent selection of STXO / STMUT can end
Selections(pop, tournament_size, double, Sf, Sp, Switch) ==
  IF ~double
  THEN {Selection(tournament(pop, tournament_size, d)) :
          d \in RandintSeqs(tournament_size, Len(pop))}
  ELSE UNION {{Selection(double_tournament(pop, Sf, Sp, tournament_size, Switch, r1, r2)) :
                 r2 \in SecondStageSamples(pop, Sf, Sp, tournament_size, Switch, r1)} :
              r1 \in FirstStageMins(IF Switch THEN Sp ELSE Sf, tournament_size, Len(pop))}

\* the nodes getRandomNode can return on the head of a selected parent
RandomNodes(sel) == IF sel.exc = "none" THEN Nodes(sel.val[1].head) ELSE {<<>>}

\* the subtrees Node().create can grow for a selected parent
CreatedNodes(sel) ==
  IF sel.exc = "none" THEN TreesUpTo(sel.val[1].cfg.max_depth) ELSE {Leaf}

\* sel1, sel2: how the two parent selections ended; n1, n2: the nodes
\* getRandomNode picked in h1 and h2.
STXO(pop, sel1, sel2, n1, n2) ==
  IF sel1.exc # "none" THEN Raised(sel1.exc, sel1.at, sel1.calls)
  ELSE IF sel2.exc # "none" THEN Raised(sel2.exc, sel2.at, sel1.calls + sel2.calls)
  ELSE LET ind1 == sel1.val[1]
           ind2 == sel2.val[1]
           h1 == ind1.head
           h2 == ind2.head
           swapped == swap(h1, n1, h2, n2)
           ret == [k \in 1..2 |-> Offspring(Len(pop) + k, ind1.cfg, swapped[k])]
       IN  [Returned(ret, sel1.calls + sel2.calls + 2) EXCEPT
              !.parents = <<ind1, ind2>>, !.nodeOps = 5]

\* sel1: how the parent selection ended; n1: the node getRandomNode picked
\* in h1; n: the subtree Node().create grew.
STMUT(pop, sel1, n1, n) ==
  IF sel1.exc # "none" THEN Raised(sel1.exc, sel1.at, sel1.calls)
  ELSE LET ind1 == sel1.val[1]
           h1 == ind1.head
           swapped == swap(h1, n1, n, <<>>)
           ret == <<Offspring(Len(pop) + 1, ind1.cfg, swapped[1])>>
       IN  [Returned(ret, sel1.calls + 2) EXCEPT !.parents = <<ind1>>, !.nodeOps = 4]

\* isCross = rng.random() < 0.5, then STXO or STMUT; desc is returned as is
getOffspring(pop, isCross, sel1, sel2, n1, n2, n) ==
  LET desc == IF isCross THEN STXO(pop, sel1, sel2, n1, n2) ELSE STMUT(pop, sel1, n1, n)
  IN  [desc EXCEPT !.calls = desc.calls + 1]

\* ------------------------------------------------------------- inputs
\* The head and the max_depth of an initial Individual: it respects its own
\* depth limit.
Shapes ==
  {<<md, h>> \in DepthLimits \X UNION {TreesUpTo(d) : d \in DepthLimits} : Depth(h) <= md}

\* The fitness of the Individual at rank i (1 is the best) of n, distinct
\* per rank.
RankFitness(ft, i, n) == IF ft = "lower_is_better" THEN i ELSE n + 1 - i

\* populations sorted from best to worst, of one fitness direction
Populations ==
  UNION {UNION {{[i \in 1..n |->
                    MkIndividual(i, Config(a[i][1], ft), a[i][2], RankFitness(ft, i, n))] :
                   a \in [1..n -> Shapes]} :
                n \in 0..MaxPop} :
         ft \in FitnessTypes}

NoArgs == [none |-> TRUE]

Init ==
  /\ population \in Populations
  /\ op = "none"
  /\ args = NoArgs
  /\ outcome = [exc |-> "none", at |-> ""]
  /\ result = <<>>
  /\ rngCalls = 0
  /\ nodeOps = 0
  /\ drawn = {}
  /\ qualifiers = <<>>
  /\ stages = 0
  /\ parents = <<>>

\* no call was made yet
Idle == op = "none"

\* the call `name` with parameters `a` ended as r
Ends(name, a, r) ==
  /\ op' = name
  /\ args' = a
  /\ outcome' = [exc |-> r.exc, at |-> r.at]
  /\ result' = r.val
  /\ rngCalls' = r.calls
  /\ nodeOps' = r.nodeOps
  /\ drawn' = r.drawn
  /\ qualifiers' = r.qualifiers
  /\ stages' = r.stages
  /\ parents' = r.parents
  /\ UNCHANGED population

\* ------------------------------------------------------------- actions
CallTournament ==
  /\ Idle
  /\ \E n \in 0..(MaxPop + 1) :
       \E draws \in RandintSeqs(n, Len(population)) :
         Ends("tournament", [n |-> n], tournament(population, n, draws))

CallDoubleTournament ==
  /\ Idle
  /\ \E Sf \in 0..MaxTour, Sp \in 0..MaxTour, n_comp \in 0..MaxComp, switch \in BOOLEAN :
       \E rnd1 \in FirstStageMins(IF switch THEN Sp ELSE Sf, n_comp, Len(population)) :
         \E rnd2 \in SecondStageSamples(population, Sf, Sp, n_comp, switch, rnd1) :
           Ends("double_tournament",
                [Sf |-> Sf, Sp |-> Sp, n_comp |-> n_comp, switch |-> switch],
                double_tournament(population, Sf, Sp, n_comp, switch, rnd1, rnd2))

CallGetElite ==
  /\ Idle
  /\ \E n \in (0 - 1)..(MaxPop + 1) :
       Ends("getElite", [n |-> n], Returned(getElite(population, n), 0))

CallDiscardDeep ==
  /\ Idle
  /\ \E limit \in 0..(Cardinality(DepthLimits) + 1) :
       Ends("discardDeep", [limit |-> limit], Returned(discardDeep(population, limit), 0))

\* the parameters of a variation call; Sf, Sp and Switch are read only when
\* double is set, and are left at their least values otherwise
VariationArgs ==
  {a \in [tournament_size : 0..MaxComp, double : BOOLEAN, Sf : 0..MaxTour,
          Sp : 0..MaxTour, Switch : BOOLEAN] :
     a.double \/ (a.Sf = 0 /\ a.Sp = 0 /\ ~a.Switch)}

ParentSelections(a) ==
  Selections(population, a.tournament_size, a.double, a.Sf, a.Sp, a.Switch)

CallSTXO ==
  /\ Idle
  /\ \E a \in VariationArgs :
       LET sels == ParentSelections(a)
       IN  \E sel1 \in sels, sel2 \in sels :
             \E n1 \in RandomNodes(sel1), n2 \in RandomNodes(sel2) :
               Ends("STXO", a, STXO(population, sel1, sel2, n1, n2))

CallSTMUT ==
  /\ Idle
  /\ \E a \in VariationArgs :
       \E sel1 \in ParentSelections(a) :
         \E n1 \in RandomNodes(sel1), n \in CreatedNodes(sel1) :
           Ends("STMUT", a, STMUT(population, sel1, n1, n))

CallGetOffspring ==
  /\ Idle
  /\ \E a \in VariationArgs, isCross \in BOOLEAN :
       LET sels == ParentSelections(a)
       IN  \E sel1 \in sels :
             \E n1 \in RandomNodes(sel1) :
               IF isCross
               THEN \E sel2 \in sels :
                      \E n2 \in RandomNodes(sel2) :
                        Ends("getOffspring", a,
                             getOffspring(population, isCross, sel1, sel2, n1, n2, Leaf))
               ELSE \E n \in CreatedNodes(sel1) :
                      Ends("getOffspring", a,
                           getOffspring(population, isCross, sel1, sel1, n1, <<>>, n))

Next ==
  \/ CallTournament
  \/ CallDoubleTournament
  \/ CallGetElite
  \/ CallDiscardDeep
  \/ CallSTXO
  \/ CallSTMUT
  \/ CallGetOffspring

Spec == Init /\ [][Next]_vars

\* ------------------------------------------------------------- claims
\* the dominance constraint of the last double_tournament call is violated
Violated == IF args.switch THEN args.Sp < args.Sf ELSE args.Sf < args.Sp

\* the position of a population member in the population (1 is the best)
RankOf(ind) == CHOOSE i \in 1..Len(population) : population[i] = ind

C2_NoDeepOffspring ==
  (op = "getOffspring" /\ outcome.exc = "none") =>
    \A i \in 1..Len(result) : getDepth(result[i]) <= result[i].cfg.max_depth

\* C3 (as stated): tournament with k equal to the population size always
\* returns population[0].
C3_AlwaysBest ==
  (op = "tournament" /\ args.n = Len(population) /\ outcome.exc = "none") =>
    result[1] = population[1]

\* C3 (amended): tournament with k equal to the population size returns
\* population[0] exactly when index 0 is among the k draws.
C3_BestIffDrawn ==
  (op = "tournament" /\ args.n = Len(population) /\ outcome.exc = "none") =>
    (result[1] = population[1] <=> 0 \in drawn)

C3_Witness ==
  /\ op = "tournament"
  /\ Len(population) >= 2
  /\ args.n = Len(population)
  /\ outcome.exc = "none"
  /\ 0 \notin drawn
  /\ result[1] # population[1]

\* C4: for 1 <= k <= N, tournament makes k draws in [0, N) and returns the
\* Individual at the least drawn index: a drawn index no other drawn index is
\* below; with k = 1 it is the single index drawn.
C4_MinDrawnIndex ==
  (op = "tournament" /\ 1 <= args.n /\ args.n <= Len(population)) =>
    /\ outcome.exc = "none"
    /\ rngCalls = args.n
    /\ drawn # {}
    /\ drawn \subseteq 0..(Len(population) - 1)
    /\ Cardinality(drawn) <= args.n
    /\ Len(result) = 1
    /\ \E r \in drawn : /\ result[1] = population[r + 1]
                        /\ \A d \in drawn : r <= d
    /\ args.n = 1 => drawn = {RankOf(result[1]) - 1}

C4_Witness ==
  /\ op = "tournament"
  /\ Len(population) = 2
  /\ args.n = 2
  /\ drawn = {1}
  /\ result = <<population[2]>>

\* C5: STXO returns two Individuals, each with the configuration of its own
\* parent.
C5_RespectiveConfig ==
  (op = "STXO" /\ outcome.exc = "none") =>
    /\ Len(result) = 2
    /\ result[1].cfg = parents[1].cfg
    /\ result[2].cfg = parents[2].cfg

\* C6: a double_tournament, STXO or STMUT call that ends in the
\* configuration error has made no call on the random source, has left the
\* population as it was, has touched no tree and has built nothing.
C6_FailsBeforeSampling ==
  [][(op' \in {"double_tournament", "STXO", "STMUT"} /\ outcome'.exc = "AssertionError") =>
       /\ population' = population
       /\ rngCalls' = 0
       /\ nodeOps' = 0
       /\ stages' = 0
       /\ drawn' = {}
       /\ qualifiers' = <<>>
       /\ parents' = <<>>
       /\ result' = <<>>]_vars

C6_Witness ==
  /\ op = "STXO"
  /\ args.double
  /\ outcome.exc = "AssertionError"
  /\ Len(population) >= 1
  /\ args.tournament_size >= 1
  /\ rngCalls = 0

\* C7: discardDeep returns the Individuals of depth <= limit, all of them,
\* in their input order, leaves its input as it was, and is idempotent.
C7_DiscardDeep ==
  [][op' = "discardDeep" =>
       /\ population' = population
       /\ \A i \in 1..Len(result') : /\ getDepth(result'[i]) <= args'.limit
                                     /\ result'[i] \in Range(population)
       /\ \A i, j \in 1..Len(result') : i < j => result'[i].id < result'[j].id
       /\ \A k \in 1..Len(population) :
            getDepth(population[k]) <= args'.limit => population[k] \in Range(result')
       /\ discardDeep(result', args'.limit) = result']_vars

C7_Witness ==
  /\ op = "discardDeep"
  /\ Len(population) = 2
  /\ Len(result) = 1
  /\ getDepth(result[1]) = args.limit

\* C8: getElite returns the first n elements of the population, the same
\* objects in the same order, for 0 <= n <= N, the whole population for
\* n > N, and leaves the population as it was.
C8_Elite ==
  [][op' = "getElite" =>
       /\ population' = population
       /\ outcome'.exc = "none"
       /\ (0 <= args'.n /\ args'.n <= Len(population)) =>
            /\ Len(result') = args'.n
            /\ \A i \in 1..args'.n : result'[i] = population[i]
       /\ args'.n > Len(population) => result' = population]_vars

C8_Witness ==
  /\ op = "getElite"
  /\ Len(population) = 2
  /\ args.n = 1
  /\ result = <<population[1]>>

\* C9: once double_tournament is past its dominance check and has built
\* its shortlist, the shortlist has as many entries as the dominant pool
\* size, the second stage asks for no more distinct indices than that, and
\* its sample does not fail.
C9_SecondStageCanSample ==
  (op = "double_tournament" /\ outcome.exc # "AssertionError" /\ stages >= 1) =>
    LET dominant == IF args.switch THEN args.Sp ELSE args.Sf
        requested == IF args.switch THEN args.Sf ELSE args.Sp
    IN  /\ Len(qualifiers) = dominant
        /\ requested <= Len(qualifiers)
        /\ outcome.at # "sample"
        /\ stages = 2 => Cardinality(drawn) = requested

C9_Witness ==
  /\ op = "double_tournament"
  /\ ~args.switch
  /\ args.Sf = 2
  /\ args.Sp = 2
  /\ stages = 2
  /\ Len(qualifiers) = 2
  /\ qualifiers[1] = qualifiers[2]
  /\ drawn = {0, 1}

\* C10: the second stage returns the best of the shortlist entries it
\* drew: with switch the one ranked earliest in the population, without it
\* one of least size.
C10_BestOfDrawn ==
  (op = "double_tournament" /\ stages = 2) =>
    IF args.switch
    THEN \A d \in drawn : RankOf(result[1]) <= RankOf(qualifiers[d + 1])
    ELSE \A d \in drawn : result[1].size <= sorted(qualifiers, "size")[d + 1].size

====
